---- MODULE Spec2Model ----
(***************************************************************************)
(* Model of src/inventory_system.py: class Inventory, an insertion-ordered *)
(* mapping from item name to quantity with JSON persistence.               *)
(*                                                                         *)
(* A Python dict is modelled as a sequence of entries in insertion order.  *)
(* Python values that reach the methods as arguments or come out of the    *)
(* JSON parser are records [t, s, n] carrying their Python type t.         *)
(***************************************************************************)
EXTENDS Integers, Sequences, FiniteSets, TLC

VARIABLES
    stock,   \* Inventory._stock: sequence of [name, qty] in insertion order
    file,    \* what is stored at file_path
    saved,   \* history: the mapping written by the last successful save_data
    last,    \* the last call: operation, arguments, mapping before, outcome
    hist     \* history: per item, quantities added / asked to remove / taken out

vars == <<stock, file, saved, last, hist>>

\* ---------------------------------------------------------------- bounds
MaxQty == 2         \* largest qty argument of add_item / remove_item
MaxStock == 2       \* largest quantity an entry is allowed to grow to
MaxTotal == 3       \* largest per-item total recorded in hist
MaxThreshold == 2   \* largest explicit threshold argument

Names == {"apple", "banana"}

\* default of check_low_items(threshold=5)
DefaultThreshold == 5

\* ---------------------------------------------------------------- Python values
StrVal(x) == [t |-> "str", s |-> x, n |-> 0]
IntVal(x) == [t |-> "int", s |-> "", n |-> x]
BoolVal(x) == [t |-> "bool", s |-> "", n |-> x]          \* True is BoolVal(1)
FloatVal(h) == [t |-> "float", s |-> "", n |-> h]        \* the float h/2
FloatInf == [t |-> "float", s |-> "inf", n |-> 0]
FloatNaN == [t |-> "float", s |-> "nan", n |-> 0]
NoneVal == [t |-> "NoneType", s |-> "", n |-> 0]
ListVal == [t |-> "list", s |-> "", n |-> 0]

\* isinstance(v, str)
IsStr(v) == v.t = "str"

\* isinstance(v, int): bool is a subclass of int
IsInt(v) == v.t \in {"int", "bool"}

\* Truncation toward zero of the float h/2 (int() of a finite float).
Trunc(h) == IF h >= 0 THEN h \div 2 ELSE -((-h) \div 2)

\* int() of a string: the decimal integer literals parse, anything else does not.
IntLiterals == ("1" :> 1) @@ ("-1" :> -1) @@ ("0" :> 0)

\* int(v): [exc, n]
PyInt(v) ==
    CASE v.t \in {"int", "bool"} -> [exc |-> "none", n |-> v.n]
      [] v.t = "float" /\ v.s = "inf" -> [exc |-> "OverflowError", n |-> 0]
      [] v.t = "float" /\ v.s = "nan" -> [exc |-> "ValueError", n |-> 0]
      [] v.t = "float" /\ v.s = "" -> [exc |-> "none", n |-> Trunc(v.n)]
      [] v.t = "str" /\ v.s \in DOMAIN IntLiterals ->
            [exc |-> "none", n |-> IntLiterals[v.s]]
      [] v.t = "str" /\ v.s \notin DOMAIN IntLiterals ->
            [exc |-> "ValueError", n |-> 0]
      [] OTHER -> [exc |-> "TypeError", n |-> 0]

Digit == <<"0", "1", "2", "3", "4", "5", "6", "7", "8", "9">>

\* str(v) of a string or of a small integer
PyStr(v) ==
    IF v.t = "str" THEN v.s
    ELSE IF v.n >= 0 THEN Digit[(v.n % 10) + 1]
    ELSE "-" \o Digit[((-v.n) % 10) + 1]

\* ---------------------------------------------------------------- dict
EmptyDict == << >>

\* the keys of a dict
Keys(d) == {d[i].name : i \in DOMAIN d}

Index(d, k) == CHOOSE i \in DOMAIN d : d[i].name = k

\* d.get(k, default)
Get(d, k, default) == IF k \in Keys(d) THEN d[Index(d, k)].qty ELSE default

\* d[k] = v: an existing key keeps its place, a new key goes last
SetItem(d, k, v) ==
    IF k \in Keys(d) THEN [d EXCEPT ![Index(d, k)].qty = v]
    ELSE Append(d, [name |-> k, qty |-> v])

\* del d[k]
DelItem(d, k) == SelectSeq(d, LAMBDA e : e.name # k)

\* ---------------------------------------------------------------- Inventory
Ok(d) == [stock |-> d, exc |-> "none"]
Raise(d, e) == [stock |-> d, exc |-> e]

\* for k, v in initial.items(): self._stock[str(k)] = int(v)
RECURSIVE InitLoop(_, _)
InitLoop(initial, d) ==
    IF initial = << >> THEN Ok(d)
    ELSE LET k == Head(initial).key
             v == PyInt(Head(initial).val)
         IN  IF v.exc # "none" THEN Raise(d, v.exc)
             ELSE InitLoop(Tail(initial), SetItem(d, PyStr(k), v.n))

\* Inventory(initial): the new object's _stock, or the exception that leaves
\* no object
Inventory(initial) == InitLoop(initial, EmptyDict)

\* add_item without the qty < 0 check
add_item_unchecked(d, item, qty) ==
    IF ~IsStr(item) THEN Raise(d, "TypeError")
    ELSE IF ~IsInt(qty) THEN Raise(d, "TypeError")
    ELSE Ok(SetItem(d, item.s, Get(d, item.s, 0) + qty.n))

add_item(d, item, qty) ==
    IF ~IsStr(item) THEN Raise(d, "TypeError")
    ELSE IF ~IsInt(qty) THEN Raise(d, "TypeError")
    ELSE IF qty.n < 0 THEN Raise(d, "ValueError")
    ELSE Ok(SetItem(d, item.s, Get(d, item.s, 0) + qty.n))

\* remove_item that always subtracts and never deletes
remove_item_subtract(d, item, qty) ==
    IF ~IsStr(item) THEN Raise(d, "TypeError")
    ELSE IF ~IsInt(qty) THEN Raise(d, "TypeError")
    ELSE IF qty.n < 0 THEN Raise(d, "ValueError")
    ELSE IF item.s \notin Keys(d) THEN Raise(d, "KeyError")
    ELSE Ok(SetItem(d, item.s, Get(d, item.s, 0) - qty.n))

\* remove_item that deletes only when the quantity is below qty
remove_item_strict(d, item, qty) ==
    IF ~IsStr(item) THEN Raise(d, "TypeError")
    ELSE IF ~IsInt(qty) THEN Raise(d, "TypeError")
    ELSE IF qty.n < 0 THEN Raise(d, "ValueError")
    ELSE IF item.s \notin Keys(d) THEN Raise(d, "KeyError")
    ELSE IF Get(d, item.s, 0) < qty.n THEN Ok(DelItem(d, item.s))
    ELSE Ok(SetItem(d, item.s, Get(d, item.s, 0) - qty.n))

\* remove_item that ignores an absent item instead of raising
remove_item_silent(d, item, qty) ==
    IF ~IsStr(item) THEN Raise(d, "TypeError")
    ELSE IF ~IsInt(qty) THEN Raise(d, "TypeError")
    ELSE IF qty.n < 0 THEN Raise(d, "ValueError")
    ELSE IF item.s \notin Keys(d) THEN Ok(d)
    ELSE IF Get(d, item.s, 0) <= qty.n THEN Ok(DelItem(d, item.s))
    ELSE Ok(SetItem(d, item.s, Get(d, item.s, 0) - qty.n))

remove_item(d, item, qty) ==
    IF ~IsStr(item) THEN Raise(d, "TypeError")
    ELSE IF ~IsInt(qty) THEN Raise(d, "TypeError")
    ELSE IF qty.n < 0 THEN Raise(d, "ValueError")
    ELSE IF item.s \notin Keys(d) THEN Raise(d, "KeyError")
    ELSE IF Get(d, item.s, 0) <= qty.n THEN Ok(DelItem(d, item.s))
    ELSE Ok(SetItem(d, item.s, Get(d, item.s, 0) - qty.n))

\* get_qty: [exc, ret]
get_qty(d, item) ==
    IF ~IsStr(item) THEN [exc |-> "TypeError", ret |-> 0]
    ELSE [exc |-> "none", ret |-> Get(d, item.s, 0)]

\* the names of the entries of d, in order
NamesOf(d) == [i \in DOMAIN d |-> d[i].name]

\* check_low_items that also lists the items at the threshold
check_low_items_inclusive(d, threshold) ==
    IF ~IsInt(threshold) THEN [exc |-> "TypeError", low |-> << >>]
    ELSE [exc |-> "none",
          low |-> NamesOf(SelectSeq(d, LAMBDA e : e.qty <= threshold.n))]

\* check_low_items: [exc, low]
check_low_items(d, threshold) ==
    IF ~IsInt(threshold) THEN [exc |-> "TypeError", low |-> << >>]
    ELSE [exc |-> "none",
          low |-> NamesOf(SelectSeq(d, LAMBDA e : e.qty < threshold.n))]

\* ---------------------------------------------------------------- JSON
\* A JSON text is modelled by its parse tree; a value is [j, s, n]:
\* "int" an integer literal n, "real" a literal with a fraction (n halves),
\* "huge" a literal beyond the double range such as 1e999, "NaN", "string",
\* "null", "true", "array".
JInt(x) == [j |-> "int", s |-> "", n |-> x]
JReal(h) == [j |-> "real", s |-> "", n |-> h]
JHuge == [j |-> "huge", s |-> "", n |-> 0]
JNaN == [j |-> "NaN", s |-> "", n |-> 0]
JString(x) == [j |-> "string", s |-> x, n |-> 0]
JNull == [j |-> "null", s |-> "", n |-> 0]
JTrue == [j |-> "true", s |-> "", n |-> 0]
JArray == [j |-> "array", s |-> "", n |-> 0]

\* what is at file_path
Missing == [kind |-> "missing", top |-> "", members |-> << >>]
Malformed == [kind |-> "malformed", top |-> "", members |-> << >>]
Json(top, members) == [kind |-> "json", top |-> top, members |-> members]

\* json.dump that leaves out the entries whose quantity is 0
JsonDump_nonzero(d) ==
    Json("object",
         [i \in DOMAIN SelectSeq(d, LAMBDA e : e.qty # 0) |->
            [key |-> SelectSeq(d, LAMBDA e : e.qty # 0)[i].name,
             val |-> JInt(SelectSeq(d, LAMBDA e : e.qty # 0)[i].qty)]])

\* json.dump(self._stock, f, ensure_ascii=False, indent=2)
JsonDump(d) ==
    Json("object",
         [i \in DOMAIN d |-> [key |-> d[i].name, val |-> JInt(d[i].qty)]])

\* the Python value of a JSON value
JsonValue(v) ==
    CASE v.j = "int" -> IntVal(v.n)
      [] v.j = "real" -> FloatVal(v.n)
      [] v.j = "huge" -> FloatInf
      [] v.j = "NaN" -> FloatNaN
      [] v.j = "string" -> StrVal(v.s)
      [] v.j = "null" -> NoneVal
      [] v.j = "true" -> BoolVal(1)
      [] OTHER -> ListVal

\* the dict of a JSON object: a repeated key keeps its first place and its
\* last value
RECURSIVE ObjectPairs(_, _)
ObjectPairs(members, acc) ==
    IF members = << >> THEN acc
    ELSE LET m == Head(members)
             at == {i \in DOMAIN acc : acc[i].key = StrVal(m.key)}
             e == [key |-> StrVal(m.key), val |-> JsonValue(m.val)]
         IN  ObjectPairs(Tail(members),
                         IF at = {} THEN Append(acc, e)
                         ELSE [acc EXCEPT ![CHOOSE i \in at : TRUE] = e])

\* json.load(f) of a well-formed text: [t, items]
JsonLoad(f) ==
    IF f.top = "object" THEN [t |-> "dict", items |-> ObjectPairs(f.members, << >>)]
    ELSE IF f.top = "string" THEN [t |-> "str", items |-> << >>]
    ELSE [t |-> "list", items |-> << >>]

\* {str(k): int(v) for k, v in data.items()}
RECURSIVE DictComp(_, _)
DictComp(items, d) ==
    IF items = << >> THEN Ok(d)
    ELSE LET k == Head(items).key
             v == PyInt(Head(items).val)
         IN  IF v.exc # "none" THEN Raise(d, v.exc)
             ELSE DictComp(Tail(items), SetItem(d, PyStr(k), v.n))

\* save_data: [file, exc]; io is what the file system does
save_data(d, f, io) ==
    CASE io = "ok" -> [file |-> JsonDump(d), exc |-> "none"]
      [] io = "open_fails" -> [file |-> f, exc |-> "OSError"]
      [] OTHER -> [file |-> Malformed, exc |-> "OSError"]

\* load_data: [stock, exc]
load_data(d, f) ==
    IF f.kind = "missing" THEN Ok(d)
    ELSE IF f.kind = "malformed" THEN Ok(d)
    ELSE LET data == JsonLoad(f)
         IN  IF data.t # "dict" THEN Ok(d)
             ELSE LET r == DictComp(data.items, EmptyDict)
                  IN  IF r.exc = "none" THEN Ok(r.stock)
                      ELSE IF r.exc \in {"TypeError", "ValueError"} THEN Ok(d)
                      ELSE Raise(d, r.exc)

\* ---------------------------------------------------------------- inputs
ItemArgs == {StrVal(k) : k \in Names} \cup {IntVal(123)}

QtyArgs == {IntVal(q) : q \in -1..MaxQty} \cup {BoolVal(1), StrVal("ten")}

ThresholdArgs ==
    {IntVal(q) : q \in -1..MaxThreshold} \cup {IntVal(DefaultThreshold), FloatVal(5)}

JVals ==
    {JInt(-1), JInt(0), JInt(2), JReal(3), JReal(-3), JHuge, JNaN,
     JString("1"), JString("abc"), JNull, JTrue, JArray}

Member(k, v) == [key |-> k, val |-> v]

\* what another program may leave at file_path
ExternalFiles ==
    {Missing, Malformed, Json("string", << >>), Json("array", << >>)}
    \cup {Json("object", <<Member("apple", v)>>) : v \in JVals}
    \cup {Json("object", <<Member("apple", JInt(1)), Member(k, v)>>) :
            k \in Names, v \in {JInt(2), JInt(-1), JHuge, JNull}}

Entry(k, v) == [key |-> k, val |-> v]

\* arguments of the constructor
InitialArgs ==
    {<< >>,
     <<Entry(StrVal("apple"), IntVal(2))>>,
     <<Entry(StrVal("apple"), IntVal(-1))>>,
     <<Entry(StrVal("apple"), StrVal("abc"))>>,
     <<Entry(StrVal("apple"), IntVal(0)), Entry(StrVal("banana"), FloatVal(3))>>}

NoHist == [added |-> [k \in Names |-> 0],
           asked |-> [k \in Names |-> 0],
           taken |-> [k \in Names |-> 0]]

NoSave == [valid |-> FALSE, stock |-> EmptyDict]

Call(op, item, num, pre, exc) ==
    [op |-> op, item |-> item, num |-> num, pre |-> pre, exc |-> exc,
     ret |-> 0, low |-> << >>, other |-> EmptyDict]

\* ---------------------------------------------------------------- actions
\* inv.add_item(item, qty)
AddItem(item, qty) ==
    LET r == add_item(stock, item, qty)
    IN  /\ \A i \in DOMAIN r.stock : r.stock[i].qty <= MaxStock
        /\ stock' = r.stock
        /\ last' = Call("add_item", item, qty, stock, r.exc)
        /\ UNCHANGED <<file, saved>>

\* inv.remove_item(item, qty)
RemoveItem(item, qty) ==
    LET r == remove_item(stock, item, qty)
    IN  /\ stock' = r.stock
        /\ last' = Call("remove_item", item, qty, stock, r.exc)
        /\ UNCHANGED <<file, saved>>

\* inv.get_qty(item)
GetQty ==
    \E item \in ItemArgs :
        LET r == get_qty(stock, item)
        IN  /\ last' = [Call("get_qty", item, NoneVal, stock, r.exc)
                            EXCEPT !.ret = r.ret]
            /\ UNCHANGED <<stock, file, saved, hist>>

\* inv.check_low_items(threshold)
CheckLowItems ==
    \E threshold \in ThresholdArgs :
        LET r == check_low_items(stock, threshold)
        IN  /\ last' = [Call("check_low_items", NoneVal, threshold, stock, r.exc)
                            EXCEPT !.low = r.low]
            /\ UNCHANGED <<stock, file, saved, hist>>

\* inv.save_data(file_path)
SaveData ==
    \E io \in {"ok", "open_fails", "write_fails"} :
        LET r == save_data(stock, file, io)
        IN  /\ file' = r.file
            /\ saved' = CASE io = "ok" -> [valid |-> TRUE, stock |-> stock]
                          [] io = "open_fails" -> saved
                          [] OTHER -> NoSave
            /\ last' = Call("save_data", NoneVal, NoneVal, stock, r.exc)
            /\ UNCHANGED <<stock, hist>>

\* inv.load_data(file_path)
LoadData ==
    LET r == load_data(stock, file)
    IN  /\ stock' = r.stock
        /\ last' = Call("load_data", NoneVal, NoneVal, stock, r.exc)
        /\ UNCHANGED <<file, saved, hist>>

\* other = Inventory(); other.load_data(file_path)
FreshLoad ==
    LET r == load_data(Inventory(<< >>).stock, file)
    IN  /\ last' = [Call("fresh_load", NoneVal, NoneVal, stock, r.exc)
                        EXCEPT !.other = r.stock]
        /\ UNCHANGED <<stock, file, saved, hist>>

\* another program writes or deletes the file
ExternalWrite ==
    \E f \in ExternalFiles :
        /\ file' = f
        /\ saved' = NoSave
        /\ last' = Call("external_write", NoneVal, NoneVal, stock, "none")
        /\ UNCHANGED <<stock, hist>>

AddItemAny == \E item \in ItemArgs, qty \in QtyArgs :
    AddItem(item, qty) /\ UNCHANGED hist

RemoveItemAny == \E item \in ItemArgs, qty \in QtyArgs :
    RemoveItem(item, qty) /\ UNCHANGED hist

\* ---------------------------------------------------------------- Spec
Init ==
    /\ \E initial \in InitialArgs :
          /\ Inventory(initial).exc = "none"
          /\ stock = Inventory(initial).stock
    /\ file = Missing
    /\ saved = NoSave
    /\ last = Call("__init__", NoneVal, NoneVal, EmptyDict, "none")
    /\ hist = NoHist

Next ==
    \/ AddItemAny
    \/ RemoveItemAny
    \/ GetQty
    \/ CheckLowItems
    \/ SaveData
    \/ LoadData
    \/ FreshLoad
    \/ ExternalWrite

Spec == Init /\ [][Next]_vars

\* ---------------------------------------------------------------- SpecAR
\* An empty ledger driven by add_item, remove_item and get_qty only, with the
\* history of the successful calls kept per item in hist.
Min(a, b) == IF a <= b THEN a ELSE b
Max(a, b) == IF a >= b THEN a ELSE b

AddItemTracked ==
    \E item \in ItemArgs, qty \in QtyArgs :
        LET ok == add_item(stock, item, qty).exc = "none"
        IN  /\ ok => hist.added[item.s] + qty.n <= MaxTotal
            /\ AddItem(item, qty)
            /\ hist' = IF ok THEN [hist EXCEPT !.added[item.s] = @ + qty.n]
                       ELSE hist

RemoveItemTracked ==
    \E item \in ItemArgs, qty \in QtyArgs :
        LET ok == remove_item(stock, item, qty).exc = "none"
        IN  /\ ok => hist.asked[item.s] + qty.n <= MaxTotal
            /\ RemoveItem(item, qty)
            /\ hist' = IF ok
                       THEN [hist EXCEPT
                               !.asked[item.s] = @ + qty.n,
                               !.taken[item.s] = @ + Min(qty.n, Get(stock, item.s, 0))]
                       ELSE hist

InitAR ==
    /\ stock = Inventory(<< >>).stock
    /\ file = Missing
    /\ saved = NoSave
    /\ last = Call("__init__", NoneVal, NoneVal, EmptyDict, "none")
    /\ hist = NoHist

NextAR ==
    \/ AddItemTracked
    \/ RemoveItemTracked
    \/ GetQty

SpecAR == InitAR /\ [][NextAR]_vars

\* ---------------------------------------------------------------- claims
ValidCall == IsStr(last.item) /\ IsInt(last.num) /\ last.num.n >= 0

\* C1: from an empty ledger, under add_item and remove_item with qty >= 0, no
\* entry has quantity 0: an item is a key of the mapping iff its quantity is > 0.
C1_NoZeroEntry ==
    \A k \in Names : (k \in Keys(stock)) <=> (get_qty(stock, StrVal(k)).ret > 0)

\* C2: however the ledger was built (constructor, add_item, remove_item,
\* load_data), every stored quantity is >= 0.
C2_NonNegative == \A i \in DOMAIN stock : stock[i].qty >= 0

\* C3 as stated: get_qty(item) is the sum of the quantities added minus the sum
\* of the quantities of the remove_item calls that succeeded, floored at 0.
C3_SumMinusAsked ==
    \A k \in Names :
        get_qty(stock, StrVal(k)).ret = Max(0, hist.added[k] - hist.asked[k])

\* C3 amended: get_qty(item) is the sum of the quantities added minus, for each
\* remove_item call that succeeded, the smaller of its qty and the item's
\* quantity at that call; it is never negative.
C3_SumMinusTaken ==
    \A k \in Names :
        /\ get_qty(stock, StrVal(k)).exc = "none"
        /\ get_qty(stock, StrVal(k)).ret = hist.added[k] - hist.taken[k]
        /\ get_qty(stock, StrVal(k)).ret >= 0

\* C3 witness: an item was removed with a qty above its quantity and added again.
C3_Witness ==
    \E k \in Names :
        /\ hist.taken[k] < hist.asked[k]
        /\ get_qty(stock, StrVal(k)).ret > 0

\* C4: remove_item(item, qty) on a present item deletes it when qty >= its
\* quantity (get_qty is then 0) and otherwise leaves it present with its
\* quantity reduced by exactly qty; the other entries keep their quantities.
C4_RemoveEffect ==
    (last.op = "remove_item" /\ ValidCall /\ last.item.s \in Keys(last.pre)) =>
        LET k == last.item.s
            cur == Get(last.pre, k, 0)
        IN  /\ last.exc = "none"
            /\ IF last.num.n >= cur
               THEN k \notin Keys(stock) /\ get_qty(stock, last.item).ret = 0
               ELSE k \in Keys(stock) /\ Get(stock, k, 0) = cur - last.num.n
            /\ \A o \in Keys(last.pre) \ {k} :
                  o \in Keys(stock) /\ Get(stock, o, 0) = Get(last.pre, o, 0)

\* C4 witness: a remove_item of exactly the item's positive quantity deleted it.
C4_Witness ==
    /\ last.op = "remove_item"
    /\ ValidCall
    /\ last.item.s \in Keys(last.pre)
    /\ Get(last.pre, last.item.s, 0) = last.num.n
    /\ last.num.n > 0
    /\ last.item.s \notin Keys(stock)

\* C5: remove_item (with a string item and an integer qty >= 0) on an item
\* absent from the mapping raises KeyError and leaves the mapping as it was.
C5_RemoveAbsent ==
    /\ (last.op = "remove_item" /\ ValidCall /\ last.item.s \notin Keys(last.pre))
          => (last.exc = "KeyError" /\ stock = last.pre)
    /\ (last.op = "remove_item" /\ last.exc = "KeyError") => stock = last.pre

\* C5 witness: a remove_item on an absent item of a non-empty ledger failed.
C5_Witness ==
    /\ last.op = "remove_item"
    /\ ValidCall
    /\ last.item.s \notin Keys(last.pre)
    /\ last.pre # EmptyDict
    /\ last.exc = "KeyError"

\* C6: load_data on a path where no file exists does not raise and leaves the
\* ledger empty, whatever it held before.
C6_MissingFileLeavesEmpty ==
    (last.op = "load_data" /\ file.kind = "missing") =>
        (last.exc = "none" /\ stock = EmptyDict)

\* the file is malformed, or not an object, or has a value int() rejects
BadFile(f) ==
    \/ f.kind = "malformed"
    \/ /\ f.kind = "json"
       /\ \/ JsonLoad(f).t # "dict"
          \/ \E i \in DOMAIN JsonLoad(f).items :
                PyInt(JsonLoad(f).items[i].val).exc # "none"

\* C7: load_data on a malformed file, a file whose top-level value is not an
\* object, or an object with a value that cannot be coerced to an integer
\* raises nothing and leaves the mapping as it was.
C7_BadFileIsNoOp ==
    (last.op = "load_data" /\ BadFile(file)) =>
        (last.exc = "none" /\ stock = last.pre)

\* C8: after a successful save_data, load_data into a new empty ledger yields
\* the saved mapping (same keys, same quantities, same order) and raises
\* nothing; save_data leaves the saving ledger's mapping as it was.
C8_RoundTrip ==
    /\ (last.op = "fresh_load" /\ saved.valid) =>
          (last.exc = "none" /\ last.other = saved.stock)
    /\ last.op = "save_data" => stock = last.pre

\* C8 witness: a ledger of two entries, one of quantity 0, went through the
\* round trip.
C8_Witness ==
    /\ last.op = "fresh_load"
    /\ saved.valid
    /\ Len(saved.stock) = 2
    /\ \E i \in DOMAIN saved.stock : saved.stock[i].qty = 0

\* C9: check_low_items(threshold) returns exactly the items whose quantity is
\* below the threshold, each once, in the order of the mapping, and leaves the
\* mapping as it was.
C9_LowItems ==
    (last.op = "check_low_items" /\ IsInt(last.num)) =>
        /\ last.exc = "none"
        /\ stock = last.pre
        /\ {last.low[i] : i \in DOMAIN last.low} =
              {k \in Keys(stock) : Get(stock, k, 0) < last.num.n}
        /\ \A i, j \in DOMAIN last.low :
              i < j => Index(stock, last.low[i]) < Index(stock, last.low[j])

\* C9 witness: of two items, the one at the threshold was left out and the one
\* below it was returned.
C9_Witness ==
    /\ last.op = "check_low_items"
    /\ IsInt(last.num)
    /\ Len(stock) = 2
    /\ Len(last.low) = 1
    /\ \E i \in DOMAIN stock : stock[i].qty = last.num.n

\* C10: add_item and remove_item with a string item and a negative integer qty
\* raise ValueError whether or not the item is present, and leave the mapping
\* as it was.
C10_NegativeQty ==
    (/\ last.op \in {"add_item", "remove_item"}
     /\ IsStr(last.item)
     /\ IsInt(last.num)
     /\ last.num.n < 0) =>
        (last.exc = "ValueError" /\ stock = last.pre)

\* C10 witness: a remove_item with a negative qty on an absent item failed
\* with ValueError.
C10_Witness ==
    /\ last.op = "remove_item"
    /\ IsStr(last.item)
    /\ IsInt(last.num)
    /\ last.num.n < 0
    /\ last.item.s \notin Keys(last.pre)
    /\ last.exc = "ValueError"

====
